---- MODULE Spec2Model ----
(***************************************************************************)
(* Model of packages/engine/src/worker/runner/javascript/mini_v8/ffi.cc:   *)
(* the value descriptors (ValueDesc), the persistent handles that carry    *)
(* engine values across the FFI, the exception channel (TryCatchDesc), the *)
(* native callback bridge (RustCallback) and the teardown of an Interface. *)
(*                                                                         *)
(* Engine values are records [kind, num, id, msg]: kind is the V8 type,    *)
(* num the primitive payload, id the identity of a heap object and msg the *)
(* message of an Error object.  Numbers are                                *)
(* carried in halves (num = 2 * x), so that 1.5 is the number 3 and an     *)
(* Int32 is an even num.                                                   *)
(***************************************************************************)
EXTENDS Integers, Sequences, FiniteSets, TLC

VARIABLES
  inst,        \* the Interface: "none", "live", "dropped"; "aborted" when the process died
  handles,     \* the isolate's persistent handles (v8::Persistent<v8::Value>)
  uaf,         \* a released handle was read or released again
  regs,        \* the RustCallback records, by closure
  dropCalls,   \* calls of main_callback_drop_func, by closure: who made each
  rooted,      \* closures whose function object the script heap references
  stack,       \* operations in flight, innermost last
  termReq,     \* TerminateExecution was requested and has not taken effect
  last,        \* what the last returned operation gave its caller
  codec,       \* the codec harness: input value, descriptor, decoded value
  plat,        \* the process-wide platform and the threads inside init_v8
  iface,       \* what the Interface owns, and the steps of its teardown
  second       \* a second Interface of the process: its state and what it owns

vars == <<inst, handles, uaf, regs, dropCalls, rooted, stack, termReq, last, codec, plat, iface, second>>

----------------------------------------------------------------------------
(* Bounds *)

MaxHandles == 2
MaxRegs == 1
MaxDepth == 1
MaxArgs == 1
MaxIds == 3
MaxThreads == 2
CallHandles == 3
CallArgs == 2
TwoHandles == 3
TwoRegs == 2

----------------------------------------------------------------------------
(* ValueDescTag *)

Null == 0
Undefined == 1
Number == 2
Boolean == 3
Array == 4
Function == 5
Date == 6
Object == 7
String == 8

RUST_CALLBACK_CLASS_ID == 1001
sizeof_RustCallback == 32

EXECUTION_TIMEOUT_MESSAGE == "execution timed out"

----------------------------------------------------------------------------
(* Engine values *)

V(k, n, i) == [kind |-> k, num |-> n, id |-> i, msg |-> ""]

UndefinedValue == V("undefined", 0, 0)
NullValue == V("null", 0, 0)
TrueValue == V("boolean", 1, 0)
FalseValue == V("boolean", 0, 0)
Num(x) == V("number", 2 * x, 0)

\* the object v8::Exception::Error builds from EXECUTION_TIMEOUT_MESSAGE
TimeoutError == [kind |-> "object", num |-> 0, id |-> 0, msg |-> EXECUTION_TIMEOUT_MESSAGE]

IsUndefined(v) == v.kind = "undefined"
IsNull(v) == v.kind = "null"
IsTrue(v) == v.kind = "boolean" /\ v.num = 1
IsFalse(v) == v.kind = "boolean" /\ v.num = 0
IsNumber(v) == v.kind = "number"
IsInt32(v) == IsNumber(v) /\ v.num % 2 = 0
IsDate(v) == v.kind = "date"
IsString(v) == v.kind = "string"
IsArray(v) == v.kind = "array"
IsFunction(v) == v.kind = "function"
IsObject(v) == v.kind \in {"object", "array", "function", "date"}

\* Int32Value: the number truncated to an integer
Int32Value(v) == IF v.num >= 0 THEN v.num \div 2 ELSE -((-v.num) \div 2)

----------------------------------------------------------------------------
(* Persistent handles.  A slot is free or holds a value; held counts the   *)
(* references the host was given to it.  The handles given to the host     *)
(* take the first slots of the table, the handle a RustCallback owns the   *)
(* slot after them that belongs to its closure.  The size of the table is  *)
(* that of its initial state.                                              *)

AllHandles == DOMAIN handles

Handles == 1..(Len(handles) - Len(regs))

\* the slot of the handle the RustCallback of closure c owns
OwnSlot(c) == Len(handles) - Len(regs) + c

FreeSlot == [live |-> FALSE, val |-> UndefinedValue, cls |-> 0, weak |-> FALSE, held |-> 0, iso |-> 0]

\* the state an operation threads through its steps: the handle table, the
\* handles it released and created so far, and whether it touched a released
\* handle
Eng(hs, bad) == [hs |-> hs, dec |-> <<>>, rel |-> <<>>, new |-> <<>>, uaf |-> bad, iso |-> 1]

\* the same in the isolate of Interface i
EngOf(i, hs, bad) == [Eng(hs, bad) EXCEPT !.iso = i]

FreeCount(hs) == Cardinality({h \in Handles : ~hs[h].live})

\* new v8::Persistent<v8::Value>(isolate, value)
NewPersistentAt(e, v, heldBy, h) ==
  [e |-> [e EXCEPT !.hs[h] = [live |-> TRUE, val |-> v, cls |-> 0, weak |-> FALSE, held |-> heldBy,
                              iso |-> e.iso],
                   !.new = Append(@, h)],
   h |-> h]

\* a faulty NewPersistent that hands out a live handle of the same value again
NewPersistentShared(e, v, heldBy) ==
  IF \E x \in Handles : e.hs[x].live /\ e.hs[x].val = v /\ ~e.hs[x].weak
  THEN LET h == CHOOSE x \in Handles : e.hs[x].live /\ e.hs[x].val = v /\ ~e.hs[x].weak
       IN [e |-> [e EXCEPT !.hs[h].held = @ + heldBy], h |-> h]
  ELSE NewPersistentAt(e, v, heldBy,
                       CHOOSE x \in Handles : ~e.hs[x].live /\ \A y \in Handles : ~e.hs[y].live => x <= y)

NewPersistent(e, v, heldBy) ==
  NewPersistentAt(e, v, heldBy,
                  CHOOSE x \in Handles : ~e.hs[x].live /\ \A y \in Handles : ~e.hs[y].live => x <= y)

\* a faulty ResetAndDelete that resets every handle of the value
ResetAndDelete_value(e, h) ==
  [e EXCEPT !.hs = [g \in DOMAIN e.hs |-> IF e.hs[g].live /\ e.hs[g].val = e.hs[h].val THEN FreeSlot ELSE e.hs[g]],
            !.rel = Append(@, h)]

\* value_ptr->Reset(); delete value_ptr;
ResetAndDelete(e, h) ==
  IF e.hs[h].live
  THEN [e EXCEPT !.hs[h] = FreeSlot, !.rel = Append(@, h)]
  ELSE [e EXCEPT !.uaf = TRUE, !.rel = Append(@, h)]

----------------------------------------------------------------------------
(* 64-bit words, as four 16-bit limbs with the lowest first: size_t and the *)
(* int64_t of AdjustAmountOfExternalAllocatedMemory                        *)

Limb == 2^16

ZeroW == <<0, 0, 0, 0>>

\* a + b in 64 bits
AddW(a, b) ==
  LET s1 == a[1] + b[1]
      s2 == a[2] + b[2] + s1 \div Limb
      s3 == a[3] + b[3] + s2 \div Limb
      s4 == a[4] + b[4] + s3 \div Limb
  IN <<s1 % Limb, s2 % Limb, s3 % Limb, s4 % Limb>>

\* a faulty NegW that negates in 32 bits
NegW_narrow(a) ==
  LET n == AddW([i \in 1..4 |-> Limb - 1 - a[i]], <<1, 0, 0, 0>>)
  IN <<n[1], n[2], 0, 0>>

\* -a of a size_t a, passed as int64_t
NegW(a) == AddW([i \in 1..4 |-> Limb - 1 - a[i]], <<1, 0, 0, 0>>)

\* a uint32_t, of two limbs, widened to size_t
FromUint32(u) == <<u[1], u[2], 0, 0>>

\* sizeof(RustCallback) + func_size
SizeOf(func_size) == AddW(<<sizeof_RustCallback, 0, 0, 0>>, FromUint32(func_size))

NoReg == [st |-> "none", interface |-> 0, value_ptr |-> 0, func_size |-> <<0, 0>>, credit |-> ZeroW, debit |-> ZeroW, steps |-> <<>>]

----------------------------------------------------------------------------
(* ValueDesc *)

Desc(t, p) == [tag |-> t, payload |-> p]

RefTags == {Array, Function, Object, String}

IsRefDesc(d) == d.tag \in RefTags

NoDesc == Desc(Undefined, 0)

\* a faulty value_to_desc that reads every number with Int32Value
value_to_desc_trunc(e, value) ==
  IF IsUndefined(value) THEN [e |-> e, desc |-> Desc(Undefined, 0)]
  ELSE IF IsNull(value) THEN [e |-> e, desc |-> Desc(Null, 0)]
  ELSE IF IsTrue(value) THEN [e |-> e, desc |-> Desc(Boolean, 1)]
  ELSE IF IsFalse(value) THEN [e |-> e, desc |-> Desc(Boolean, 0)]
  ELSE IF IsNumber(value) THEN [e |-> e, desc |-> Desc(Number, 2 * Int32Value(value))]
  ELSE IF IsDate(value) THEN [e |-> e, desc |-> Desc(Date, value.num)]
  ELSE IF IsString(value) \/ IsArray(value) \/ IsFunction(value) \/ IsObject(value)
  THEN LET tag == IF IsString(value) THEN String
                  ELSE IF IsArray(value) THEN Array
                  ELSE IF IsFunction(value) THEN Function
                  ELSE Object
           a == NewPersistent(e, value, 1)
       IN [e |-> a.e, desc |-> Desc(tag, a.h)]
  ELSE [e |-> e, desc |-> Desc(Undefined, 0)]

\* a faulty value_to_desc that tests IsObject before IsDate, IsArray and IsFunction
value_to_desc_objfirst(e, value) ==
  IF IsUndefined(value) THEN [e |-> e, desc |-> Desc(Undefined, 0)]
  ELSE IF IsNull(value) THEN [e |-> e, desc |-> Desc(Null, 0)]
  ELSE IF IsTrue(value) THEN [e |-> e, desc |-> Desc(Boolean, 1)]
  ELSE IF IsFalse(value) THEN [e |-> e, desc |-> Desc(Boolean, 0)]
  ELSE IF IsInt32(value) THEN [e |-> e, desc |-> Desc(Number, 2 * Int32Value(value))]
  ELSE IF IsNumber(value) THEN [e |-> e, desc |-> Desc(Number, value.num)]
  ELSE IF IsString(value) \/ IsObject(value)
  THEN LET a == NewPersistent(e, value, 1)
       IN [e |-> a.e, desc |-> Desc(IF IsString(value) THEN String ELSE Object, a.h)]
  ELSE [e |-> e, desc |-> Desc(Undefined, 0)]

\* value_to_desc: the descriptor, and the handle table after it
value_to_desc(e, value) ==
  IF IsUndefined(value) THEN [e |-> e, desc |-> Desc(Undefined, 0)]
  ELSE IF IsNull(value) THEN [e |-> e, desc |-> Desc(Null, 0)]
  ELSE IF IsTrue(value) THEN [e |-> e, desc |-> Desc(Boolean, 1)]
  ELSE IF IsFalse(value) THEN [e |-> e, desc |-> Desc(Boolean, 0)]
  ELSE IF IsInt32(value) THEN [e |-> e, desc |-> Desc(Number, 2 * Int32Value(value))]
  ELSE IF IsNumber(value) THEN [e |-> e, desc |-> Desc(Number, value.num)]
  ELSE IF IsDate(value) THEN [e |-> e, desc |-> Desc(Date, value.num)]
  ELSE IF IsString(value) \/ IsArray(value) \/ IsFunction(value) \/ IsObject(value)
  THEN LET tag == IF IsString(value) THEN String
                  ELSE IF IsArray(value) THEN Array
                  ELSE IF IsFunction(value) THEN Function
                  ELSE Object
           a == NewPersistent(e, value, 1)
       IN [e |-> a.e, desc |-> Desc(tag, a.h)]
  ELSE [e |-> e, desc |-> Desc(Undefined, 0)]

\* a faulty desc_to_value that reads the handle and does not release it
desc_to_value_keep(e0, desc, fresh) ==
  LET e == [e0 EXCEPT !.dec = Append(@, desc)]
  IN IF desc.tag = Null THEN [e |-> e, value |-> NullValue]
     ELSE IF desc.tag = Number THEN [e |-> e, value |-> V("number", desc.payload, 0)]
     ELSE IF desc.tag = Boolean
     THEN [e |-> e, value |-> IF desc.payload # 0 THEN TrueValue ELSE FalseValue]
     ELSE IF desc.tag = Date THEN [e |-> e, value |-> V("date", desc.payload, fresh)]
     ELSE IF desc.tag \in RefTags THEN [e |-> e, value |-> e.hs[desc.payload].val]
     ELSE [e |-> e, value |-> UndefinedValue]

\* desc_to_value: the engine value, and the handle table after it; fresh is
\* the identity v8::Date::New gives the object it creates
desc_to_value(e0, desc, fresh) ==
  LET e == [e0 EXCEPT !.dec = Append(@, desc)]
  IN IF desc.tag = Null THEN [e |-> e, value |-> NullValue]
     ELSE IF desc.tag = Number THEN [e |-> e, value |-> V("number", desc.payload, 0)]
     ELSE IF desc.tag = Boolean
     THEN [e |-> e, value |-> IF desc.payload # 0 THEN TrueValue ELSE FalseValue]
     ELSE IF desc.tag = Date THEN [e |-> e, value |-> V("date", desc.payload, fresh)]
     ELSE IF desc.tag \in RefTags
     THEN [e |-> ResetAndDelete(e, desc.payload), value |-> e.hs[desc.payload].val]
     ELSE [e |-> e, value |-> UndefinedValue]

----------------------------------------------------------------------------
(* The exception channel *)

\* the state of a v8::TryCatch when the operation ends.  V8 attaches a
\* message to a thrown exception; a termination leaves Exception() the null
\* value and Message() empty.
NoCatch == [caught |-> FALSE, terminated |-> FALSE, exception |-> UndefinedValue, message |-> FALSE]
Thrown(v) == [caught |-> TRUE, terminated |-> FALSE, exception |-> v, message |-> TRUE]
Terminated == [caught |-> TRUE, terminated |-> TRUE, exception |-> NullValue, message |-> FALSE]

\* TryCatch::StackTrace is empty unless the exception is an object with a stack
StackTraceIsEmpty(tc) == ~tc.caught \/ ~IsObject(tc.exception) \/ tc.exception.msg = ""

Outcome(d, x) == [value_desc |-> d, is_exception |-> x]

\* a faulty try_catch_err that reports every exception as the timeout Error
try_catch_err_wrapped(e, tc) ==
  LET r == value_to_desc(e, TimeoutError)
  IN [e |-> r.e, out |-> Outcome(r.desc, 1), ub |-> StackTraceIsEmpty(tc) /\ ~tc.message]

\* a faulty try_catch_err that does not set is_exception
try_catch_err_noflag(e, tc) ==
  LET value == IF tc.terminated THEN TimeoutError ELSE tc.exception
      r == value_to_desc(e, value)
  IN [e |-> r.e, out |-> Outcome(r.desc, 0), ub |-> StackTraceIsEmpty(tc) /\ ~tc.message]

\* try_catch_err: ub tells that try_catch->Message()->Get() dereferenced an
\* empty handle
try_catch_err(e, tc) ==
  LET value == IF tc.terminated THEN TimeoutError ELSE tc.exception
      r == value_to_desc(e, value)
  IN [e |-> r.e, out |-> Outcome(r.desc, 1), ub |-> StackTraceIsEmpty(tc) /\ ~tc.message]

try_catch_ok(e, value) ==
  LET r == value_to_desc(e, value)
  IN [e |-> r.e, out |-> Outcome(r.desc, 0), ub |-> FALSE]

try_catch_ok_noval(e) == [e |-> e, out |-> Outcome(Desc(Undefined, 0), 0), ub |-> FALSE]

try_catch_ok_val(e, desc) == [e |-> e, out |-> Outcome(desc, 0), ub |-> FALSE]

----------------------------------------------------------------------------
(* The values of the main specification *)

Closures == DOMAIN regs

\* the function object mv8_function_create makes for closure c
FnValue(c) == V("function", 0, c)

\* a function defined by script
ScriptFn == V("function", 0, 0)

GlobalObject == V("object", 0, 0)
ObjectValue == V("object", 0, 1)
ArrayValue == V("array", 0, 1)
StringValue == V("string", 0, 1)
SymbolValue == V("symbol", 0, 1)
DateValue == V("date", 7, 1)

\* the SyntaxError a script that does not compile throws
ErrorValue == [kind |-> "object", num |-> 0, id |-> 2, msg |-> "SyntaxError"]

\* what a script may produce or throw
ScriptValues == {Num(42), StringValue, ObjectValue, SymbolValue}

\* what a property access or a coercion may throw
ThrowValues == {Num(42)}

\* how an engine call made by an operation ends: with a value, with a thrown
\* value, or terminated when TerminateExecution was requested
EngineResults(oks, throws) ==
  {[k |-> "ok", v |-> v] : v \in oks}
    \cup {[k |-> "throw", v |-> v] : v \in throws}
    \cup (IF termReq THEN {[k |-> "term", v |-> NullValue]} ELSE {})

TryCatchOf(res) ==
  IF res.k = "throw" THEN Thrown(res.v)
  ELSE IF res.k = "term" THEN Terminated
  ELSE NoCatch

----------------------------------------------------------------------------
(* The host *)

Top == stack[Len(stack)]

\* the host runs between operations, and inside a closure it was called for
HostRuns ==
  /\ inst = "live"
  /\ last.op = "none"
  /\ IF stack = <<>> THEN TRUE ELSE Top.t = "native"

Held(h) == handles[h].live /\ handles[h].held > 0 /\ handles[h].iso = 1

TagOf(v) == value_to_desc(Eng([h \in AllHandles |-> FreeSlot], FALSE), v).desc.tag

\* the descriptors the host can pass: a number, and the handles it holds
HostDescs ==
  {Desc(Number, 2)} \cup {Desc(TagOf(handles[h].val), h) : h \in {x \in Handles : Held(x)}}

\* property keys are numbers and strings
KeyDescs == {d \in HostDescs : d.tag \in {Number, String}}

\* no handle is passed twice in one call
Distinct(ds) ==
  \A i, j \in 1..Len(ds) : (i # j /\ IsRefDesc(ds[i]) /\ IsRefDesc(ds[j])) => ds[i].payload # ds[j].payload

\* the host gives up the handles of the descriptors it passes
PassIn(hs, ds) ==
  [h \in AllHandles |->
     IF \E i \in 1..Len(ds) : IsRefDesc(ds[i]) /\ ds[i].payload = h
     THEN [hs[h] EXCEPT !.held = @ - 1]
     ELSE hs[h]]

RECURSIVE DecodeAll(_, _, _)
\* desc_to_value on each descriptor of ds from index i on, in order
DecodeAll(e, ds, i) ==
  IF i > Len(ds) THEN [e |-> e, values |-> <<>>]
  ELSE LET r == desc_to_value(e, ds[i], 0)
           rest == DecodeAll(r.e, ds, i + 1)
       IN [e |-> rest.e, values |-> <<r.value>> \o rest.values]

RECURSIVE EncodeAll_reversed(_, _, _)
\* a faulty EncodeAll that fills the descriptors from the last argument on
EncodeAll_reversed(e, vs, i) ==
  IF i > Len(vs) THEN [e |-> e, descs |-> <<>>]
  ELSE LET r == value_to_desc(e, vs[Len(vs) + 1 - i])
           rest == EncodeAll_reversed(r.e, vs, i + 1)
       IN [e |-> rest.e, descs |-> <<r.desc>> \o rest.descs]

RECURSIVE EncodeAll(_, _, _)
\* value_to_desc on each value of vs from index i on, in order
EncodeAll(e, vs, i) ==
  IF i > Len(vs) THEN [e |-> e, descs |-> <<>>]
  ELSE LET r == value_to_desc(e, vs[i])
           rest == EncodeAll(r.e, vs, i + 1)
       IN [e |-> rest.e, descs |-> <<r.desc>> \o rest.descs]

\* the handles a sequence of values needs
Needs(vs) == Cardinality({i \in 1..Len(vs) : TagOf(vs[i]) \in RefTags})

\* the handles of the reference descriptors of ds from index i on, in order
RECURSIVE RefsOf(_, _)
RefsOf(ds, i) ==
  IF i > Len(ds) THEN <<>>
  ELSE (IF IsRefDesc(ds[i]) THEN <<ds[i].payload>> ELSE <<>>) \o RefsOf(ds, i + 1)

\* desc_to_value was called once on each descriptor of ds, and released the
\* handle of each reference descriptor once
DecodedOnce(ds, e) == e.dec = ds /\ e.rel = RefsOf(ds, 1)

\* what the dispatcher returned to rust_callback, decoded
NoRet == [called |-> FALSE, is_exception |-> 0, value |-> UndefinedValue]

NoLast == [op |-> "none", out |-> Outcome(NoDesc, 0), tc |-> NoCatch,
           refs |-> 0, once |-> TRUE, fresh |-> TRUE, ran |-> FALSE, name |-> FALSE,
           nargs |-> 0, inorder |-> TRUE, tramp |-> TRUE, ret |-> NoRet]

\* the value a descriptor denotes
Denotes(hs, d) ==
  IF IsRefDesc(d) THEN hs[d.payload].val
  ELSE IF d.tag = Null THEN NullValue
  ELSE IF d.tag = Number THEN V("number", d.payload, 0)
  ELSE IF d.tag = Boolean THEN (IF d.payload # 0 THEN TrueValue ELSE FalseValue)
  ELSE IF d.tag = Date THEN V("date", d.payload, 0)
  ELSE UndefinedValue

\* a reference descriptor's handle is the one handle its operation created,
\* and is the host's alone; no handle was created for another descriptor
Fresh(e, d) ==
  IF IsRefDesc(d)
  THEN /\ e.new = <<d.payload>>
       /\ e.hs[d.payload].live
       /\ e.hs[d.payload].held = 1
  ELSE e.new = <<>>

\* the same of the descriptors rust_callback makes for the dispatcher
AllFresh(e, ds) ==
  /\ e.new = RefsOf(ds, 1)
  /\ \A i \in 1..Len(ds) : IsRefDesc(ds[i]) => e.hs[ds[i].payload].live /\ e.hs[ds[i].payload].held = 1
  /\ \A i, j \in 1..Len(ds) : (i # j /\ IsRefDesc(ds[i]) /\ IsRefDesc(ds[j])) => ds[i].payload # ds[j].payload

\* Isolate::Scope, HandleScope and Context::Scope are constructed: the
\* isolate and the context are entered for op
EnterScope(f, op) == [f EXCEPT !.scopes = Append(@, op)]

\* a faulty LeaveScope that leaves the isolate and the context entered
LeaveScope_stay(f) == f

\* the scopes are destroyed: the entry made last is left
LeaveScope(f) == [f EXCEPT !.scopes = SubSeq(@, 1, Len(@) - 1)]

\* Interface::scope and Interface::try_catch around an operation that runs
\* to its end
Scoped(f, op) == LeaveScope(EnterScope(f, op))

\* the process aborts inside operation base.op: nothing of it is left
Abort(base, tc) ==
  /\ inst' = "aborted"
  /\ handles' = [h \in AllHandles |-> FreeSlot]
  /\ regs' = [c \in DOMAIN regs |-> NoReg]
  /\ rooted' = {}
  /\ stack' = <<>>
  /\ termReq' = FALSE
  /\ last' = [NoLast EXCEPT !.op = base.op, !.tc = tc, !.ran = base.ran, !.name = base.name]
  /\ iface' = [iface EXCEPT !.scopes = <<>>]
  /\ UNCHANGED <<uaf, dropCalls, codec, second, plat>>

\* the operation returns r.out to the host, leaving the stack st, the
\* termination request tr and the script heap's references rt; or the process
\* aborts, when the operation ran into undefined behaviour and the build traps
Deliver(base, r, tc, abort, st, tr, rt) ==
  IF abort
  THEN Abort(base, tc)
  ELSE /\ handles' = r.e.hs
       /\ uaf' = r.e.uaf
       /\ last' = [base EXCEPT !.out = r.out, !.tc = tc, !.fresh = Fresh(r.e, r.out.value_desc)]
       /\ stack' = st
       /\ termReq' = tr
       /\ rooted' = rt
       /\ iface' = (CASE Len(st) = Len(stack) -> Scoped(iface, base.op)
                      [] Len(st) = Len(stack) - 1 -> LeaveScope(iface)
                      [] OTHER -> LeaveScope(LeaveScope(iface)))
       /\ UNCHANGED <<inst, regs, dropCalls, codec, second, plat>>

\* the termination request after an engine call that ended as res
After(res) == termReq /\ res.k # "term"

\* what an operation called with descriptors ds has done on entry
Called(op, ds, e) == [NoLast EXCEPT !.op = op, !.refs = Len(RefsOf(ds, 1)), !.once = DecodedOnce(ds, e)]

\* what rust_callback has given the dispatcher
Given(ds, e) ==
  [NoLast EXCEPT !.op = "rust_callback", !.refs = Len(RefsOf(ds, 1)), !.fresh = AllFresh(e, ds),
                 !.nargs = Len(ds) - 1]

Room(e, n) == FreeCount(e.hs) >= n

SeqsUpTo(S, n) == UNION {[1..k -> S] : k \in 0..n}

\* the outcomes of undefined behaviour: the build traps, or goes on
Aborts(ub) == IF ub THEN {TRUE, FALSE} ELSE {FALSE}

----------------------------------------------------------------------------
(* init_v8: the process-wide platform, initialized by the first caller *)

Threads == 1..MaxThreads

InitSequence == <<"InitializeICU", "NewDefaultPlatform", "InitializePlatform", "Initialize">>

\* current_platform is null and no thread is inside init_v8. sees[t]: thread t
\* is ordered after the last write of current_platform; skipped: the threads
\* that found the platform at the check under the lock; unready: an isolate
\* was created before V8::Initialize had returned
NoPlat ==
  [current_platform |-> FALSE, platform_lock |-> 0, pc |-> [t \in Threads |-> "idle"],
   sees |-> [t \in Threads |-> TRUE], log |-> <<>>, skipped |-> {}, unready |-> FALSE]

\* what the unsynchronized read of current_platform by thread t can give: the
\* value written, or still null when nothing orders the read after the write
Reads(p, t) == {p.current_platform} \cup (IF p.sees[t] THEN {} ELSE {FALSE})

\* a step of the initialization proper, as thread t holding the lock
Initialization(p, t) ==
  LET pc == p.pc[t]
  IN [p EXCEPT !.log = Append(@, pc),
               !.current_platform = @ \/ pc = "NewDefaultPlatform",
               !.sees = IF pc = "NewDefaultPlatform" THEN [u \in Threads |-> u = t] ELSE @,
               !.pc[t] = CASE pc = "InitializeICU" -> "NewDefaultPlatform"
                           [] pc = "NewDefaultPlatform" -> "InitializePlatform"
                           [] pc = "InitializePlatform" -> "Initialize"
                           [] pc = "Initialize" -> "unlock"]

\* a faulty init_v8_step without the check under the lock
init_v8_step_unchecked(p, t, seen) ==
  CASE p.pc[t] = "check" -> [p EXCEPT !.pc[t] = IF seen THEN "returned" ELSE "lock"]
    [] p.pc[t] = "lock" -> [p EXCEPT !.platform_lock = t, !.sees[t] = TRUE, !.pc[t] = "InitializeICU"]
    [] p.pc[t] = "unlock" -> [p EXCEPT !.platform_lock = 0, !.pc[t] = "returned"]
    [] OTHER -> Initialization(p, t)

\* one step of init_v8 by thread t, whose read of current_platform outside the
\* lock gave seen
init_v8_step(p, t, seen) ==
  CASE p.pc[t] = "check" -> [p EXCEPT !.pc[t] = IF seen THEN "returned" ELSE "lock"]
    [] p.pc[t] = "lock" -> [p EXCEPT !.platform_lock = t, !.sees[t] = TRUE, !.pc[t] = "locked"]
    [] p.pc[t] = "locked" ->
         IF p.current_platform
         THEN [p EXCEPT !.pc[t] = "unlock", !.skipped = @ \cup {t}]
         ELSE [p EXCEPT !.pc[t] = "InitializeICU"]
    [] p.pc[t] = "unlock" -> [p EXCEPT !.platform_lock = 0, !.pc[t] = "returned"]
    [] OTHER -> Initialization(p, t)

\* mv8_interface_new calls init_v8
Enter(p, t) == [p EXCEPT !.pc[t] = "check"]

\* v8::Isolate::New after init_v8 has returned
IsolateNew(p, t) ==
  [p EXCEPT !.pc[t] = "idle", !.unready = @ \/ p.log # InitSequence]

RECURSIVE Alone(_, _)
\* init_v8 run by thread t with no other thread inside
Alone(p, t) ==
  IF p.pc[t] = "returned" THEN p ELSE Alone(init_v8_step(p, t, p.current_platform), t)

\* the platform after one thread has created an Interface
Initialized == IsolateNew(Alone(Enter(NoPlat, 1), 1), 1)

Owned == {"allocator", "isolate", "priv_rust_callback", "context"}

NoIface == [alive |-> {}, log |-> <<>>, scopes |-> <<>>]

\* no second Interface was created
NoSecond == [inst |-> "none", iface |-> NoIface]

\* Interface i is in use: 1 is the Interface of inst and iface, 2 the second
Live(i) == IF i = 2 THEN second.inst = "live" ELSE inst = "live"

----------------------------------------------------------------------------
(* Registration and finalization of native callbacks *)

\* what finalization changes: the handles, the records, the drop calls
World(e, rs, dc) == [e |-> e, regs |-> rs, drops |-> dc]

\* a faulty callback_drop_inner that clears the weakness and leaves the handle
callback_drop_inner_noreset(w, c, by) ==
  LET vp == w.regs[c].value_ptr
      gone == w.regs[c].st # "registered"
      cleared == IF ~gone /\ w.e.hs[vp].live THEN [w.e EXCEPT !.hs[vp].weak = FALSE] ELSE w.e
      reset == IF gone THEN [cleared EXCEPT !.uaf = TRUE] ELSE cleared
  IN World(reset, [w.regs EXCEPT ![c].st = "finalized"], [w.drops EXCEPT ![c] = Append(@, by)])

\* a step of callback_drop_inner; one that reads the record reads freed
\* memory when the record is no longer allocated
Step(w, c, name, reads) ==
  World([w.e EXCEPT !.uaf = @ \/ (reads /\ w.regs[c].st # "registered")],
        [w.regs EXCEPT ![c].steps = Append(@, name)],
        w.drops)

\* a faulty callback_drop_inner that deletes the record before it calls the
\* drop dispatcher
callback_drop_inner_delete_first(w, c, by) ==
  LET vp == w.regs[c].value_ptr
      s1 == Step(w, c, "ClearWeak", TRUE)
      cleared == IF s1.regs[c].st = "registered" /\ s1.e.hs[vp].live
                 THEN [s1 EXCEPT !.e.hs[vp].weak = FALSE] ELSE s1
      s2 == Step(cleared, c, "func_size", TRUE)
      size == SizeOf(s2.regs[c].func_size)
      s3 == Step(s2, c, "delete", FALSE)
      deleted == [s3 EXCEPT !.regs[c].st = "finalized"]
      s4 == Step(deleted, c, "main_callback_drop_func", TRUE)
      dropped == [s4 EXCEPT !.drops[c] = Append(@, by)]
      s5 == Step(dropped, c, "Reset", TRUE)
      reset == IF w.regs[c].st = "registered" THEN [s5 EXCEPT !.e = ResetAndDelete(@, vp)] ELSE s5
      s6 == Step(reset, c, "AdjustAmountOfExternalAllocatedMemory", FALSE)
  IN [s6 EXCEPT !.regs[c].debit = AddW(@, NegW(size))]

\* callback_drop_inner on the record of closure c
callback_drop_inner(w, c, by) ==
  LET vp == w.regs[c].value_ptr
      s1 == Step(w, c, "ClearWeak", TRUE)
      cleared == IF s1.regs[c].st = "registered" /\ s1.e.hs[vp].live
                 THEN [s1 EXCEPT !.e.hs[vp].weak = FALSE] ELSE s1
      s2 == Step(cleared, c, "main_callback_drop_func", TRUE)
      dropped == [s2 EXCEPT !.drops[c] = Append(@, by)]
      s3 == Step(dropped, c, "Reset", TRUE)
      reset == IF s3.regs[c].st = "registered" THEN [s3 EXCEPT !.e = ResetAndDelete(@, vp)] ELSE s3
      s4 == Step(reset, c, "func_size", TRUE)
      size == SizeOf(s4.regs[c].func_size)
      s5 == Step(s4, c, "delete", FALSE)
      deleted == [s5 EXCEPT !.regs[c].st = "finalized"]
      s6 == Step(deleted, c, "AdjustAmountOfExternalAllocatedMemory", FALSE)
  IN [s6 EXCEPT !.regs[c].debit = AddW(@, NegW(size))]

\* the RustCallback the function object's private slot points to
RecordOf(v) == v.id

\* a faulty VisitPersistentHandle that returns on the class id it should act on
VisitPersistentHandle_skip(w, h) ==
  IF w.e.hs[h].cls = RUST_CALLBACK_CLASS_ID THEN w
  ELSE callback_drop_inner(w, RecordOf(w.e.hs[h].val), "mv8_interface_drop")

\* PersistentHandleCleaner::VisitPersistentHandle
VisitPersistentHandle(w, h) ==
  IF w.e.hs[h].cls # RUST_CALLBACK_CLASS_ID THEN w
  ELSE callback_drop_inner(w, RecordOf(w.e.hs[h].val), "mv8_interface_drop")

RECURSIVE VisitHandlesWithClassIds_process(_, _)
\* a faulty VisitHandlesWithClassIds that visits the handles of every isolate
VisitHandlesWithClassIds_process(w, h) ==
  IF h > Len(w.e.hs) THEN w
  ELSE IF w.e.hs[h].live /\ w.e.hs[h].cls # 0
       THEN VisitHandlesWithClassIds_process(VisitPersistentHandle(w, h), h + 1)
       ELSE VisitHandlesWithClassIds_process(w, h + 1)

RECURSIVE VisitHandlesWithClassIds(_, _)
\* isolate->VisitHandlesWithClassIds(&cleaner): every live handle with a class
\* id, from handle h on
VisitHandlesWithClassIds(w, h) ==
  IF h > Len(w.e.hs) THEN w
  ELSE IF w.e.hs[h].live /\ w.e.hs[h].cls # 0 /\ w.e.hs[h].iso = w.e.iso
       THEN VisitHandlesWithClassIds(VisitPersistentHandle(w, h), h + 1)
       ELSE VisitHandlesWithClassIds(w, h + 1)

\* a faulty Collectible that takes no account of the script heap
Collectible_unrooted(c) ==
  /\ regs[c].st = "registered"
  /\ \A h \in AllHandles : ~(handles[h].live /\ ~handles[h].weak /\ handles[h].val = FnValue(c))
  /\ \A i \in 1..Len(stack) : stack[i].reg # c

\* the collector may find the function object of c unreachable: no strong
\* handle, no reference from the script heap, no call of it in flight
Collectible(c) ==
  /\ regs[c].st = "registered"
  /\ c \notin rooted
  /\ \A h \in AllHandles : ~(handles[h].live /\ ~handles[h].weak /\ handles[h].val = FnValue(c))
  /\ \A i \in 1..Len(stack) : stack[i].reg # c

Init ==
  /\ inst = "none"
  /\ handles = [h \in 1..(MaxHandles + MaxRegs) |-> FreeSlot]
  /\ uaf = FALSE
  /\ regs = [c \in 1..MaxRegs |-> NoReg]
  /\ dropCalls = [c \in 1..MaxRegs |-> <<>>]
  /\ rooted = {}
  /\ stack = <<>>
  /\ termReq = FALSE
  /\ last = NoLast
  /\ codec = [pc |-> "off", v |-> UndefinedValue, desc |-> NoDesc, r |-> UndefinedValue]
  /\ plat = NoPlat
  /\ iface = NoIface
  /\ second = NoSecond

mv8_interface_new ==
  /\ inst = "none"
  /\ inst' = "live"
  /\ plat' = IsolateNew(Alone(Enter(plat, 1), 1), 1)
  /\ iface' = Scoped([NoIface EXCEPT !.alive = Owned], "mv8_interface_new")
  /\ UNCHANGED <<handles, uaf, regs, dropCalls, rooted, stack, termReq, last, codec, second>>

\* the host takes what the operation returned
HostReceives ==
  /\ last.op # "none"
  /\ last' = NoLast
  /\ UNCHANGED <<inst, handles, uaf, regs, dropCalls, rooted, stack, termReq, codec, second, plat, iface>>

\* the teardown so far: the world w and the Interface f
Torn(w, f) == [w |-> w, f |-> f]

Finalized(rs) == Cardinality({c \in DOMAIN rs : rs[c].st = "finalized"})

\* PersistentHandleCleaner cleaner(interface); VisitHandlesWithClassIds(&cleaner):
\* each finalization is logged; the cleaner reads the isolate, the context and
\* the private token of the Interface
Sweep(t) ==
  LET w == VisitHandlesWithClassIds(t.w, 1)
      n == Finalized(w.regs) - Finalized(t.w.regs)
      gone == n > 0 /\ ~({"isolate", "context", "priv_rust_callback"} \subseteq t.f.alive)
  IN Torn([w EXCEPT !.e.uaf = @ \/ gone],
          [Scoped(t.f, "VisitPersistentHandle") EXCEPT !.log = @ \o [i \in 1..n |-> "finalize"]])

\* Reset and delete, or Dispose, of what the Interface owns
Release(t, r) ==
  Torn([t.w EXCEPT !.e.uaf = @ \/ r \notin t.f.alive \/ (r = "isolate" /\ t.f.scopes # <<>>)],
       [t.f EXCEPT !.alive = @ \ {r}, !.log = Append(@, r)])

\* a faulty Teardown that sweeps after the releases
Teardown_late_sweep(t) ==
  Sweep(Release(Release(Release(Release(t, "priv_rust_callback"), "context"), "isolate"), "allocator"))

\* the sweep, then the private token, the context, the isolate and the
\* allocator are released
Teardown(t) ==
  Release(Release(Release(Release(Sweep(t), "priv_rust_callback"), "context"), "isolate"), "allocator")

mv8_interface_drop ==
  /\ HostRuns
  /\ stack = <<>>
  /\ LET t == Teardown(Torn(World(Eng(handles, uaf), regs, dropCalls), iface))
     IN /\ handles' = t.w.e.hs
        /\ uaf' = t.w.e.uaf
        /\ regs' = t.w.regs
        /\ dropCalls' = t.w.drops
        /\ iface' = t.f
  /\ inst' = "dropped"
  /\ UNCHANGED <<rooted, stack, termReq, last, codec, second, plat>>

mv8_interface_global ==
  /\ HostRuns
  /\ FreeCount(handles) >= 1
  /\ handles' = NewPersistent(Eng(handles, uaf), GlobalObject, 1).e.hs
  /\ iface' = Scoped(iface, "mv8_interface_global")
  /\ UNCHANGED <<inst, uaf, regs, dropCalls, rooted, stack, termReq, last, codec, second, plat>>

mv8_interface_terminate_execution ==
  /\ inst = "live"
  /\ termReq' = TRUE
  /\ UNCHANGED <<inst, handles, uaf, regs, dropCalls, rooted, stack, last, codec, second, plat, iface>>

mv8_value_ptr_clone ==
  /\ HostRuns
  /\ FreeCount(handles) >= 1
  /\ \E h \in Handles :
       /\ Held(h)
       /\ LET n == NewPersistent(Eng(handles, uaf), handles[h].val, 1)
              desc == Desc(TagOf(handles[h].val), n.h)
          IN /\ handles' = n.e.hs
             /\ last' = [NoLast EXCEPT !.op = "mv8_value_ptr_clone", !.refs = 1,
                                       !.out = Outcome(desc, 0), !.fresh = Fresh(n.e, desc)]
  /\ UNCHANGED <<inst, uaf, regs, dropCalls, rooted, stack, termReq, codec, second, plat, iface>>

\* last.out.value_desc is here the handle that was given
mv8_value_ptr_drop ==
  /\ HostRuns
  /\ \E h \in Handles :
       /\ handles[h].live /\ handles[h].held > 0 /\ Live(handles[h].iso)
       /\ LET e == ResetAndDelete(Eng(PassIn(handles, <<Desc(Object, h)>>), uaf), h)
          IN /\ handles' = e.hs
             /\ uaf' = e.uaf
             /\ last' = [NoLast EXCEPT !.op = "mv8_value_ptr_drop", !.refs = 1,
                                       !.out = Outcome(Desc(TagOf(handles[h].val), h), 0)]
  /\ UNCHANGED <<inst, regs, dropCalls, rooted, stack, termReq, codec, second, plat, iface>>

\* the closures are registered in order
NextClosure == CHOOSE c \in Closures : regs[c].st = "none" /\ \A d \in Closures : regs[d].st = "none" => c <= d

\* a faulty SetWeak that leaves the handle strong
SetWeak_strong(hs, w) == hs

\* func_value_weak->SetWeak(callback, callback_drop, kParameter)
SetWeak(hs, w) == [hs EXCEPT ![w].weak = TRUE]

\* what mv8_function_create makes on Interface i for the closure c of size
\* func_size: the handle it returns, the weak handle and the record
Registered(i, c, func_size) ==
  LET func_value == NewPersistent(EngOf(i, handles, uaf), FnValue(c), 1)
      func_value_weak == NewPersistentAt(func_value.e, func_value.e.hs[func_value.h].val, 0, OwnSlot(c))
      w == func_value_weak.h
  IN [hs |-> SetWeak([func_value_weak.e.hs EXCEPT ![w].cls = RUST_CALLBACK_CLASS_ID], w),
      regs |-> [regs EXCEPT ![c] = [NoReg EXCEPT !.st = "registered", !.interface = i, !.value_ptr = w,
                                                 !.func_size = func_size,
                                                 !.credit = SizeOf(func_size)]]]

\* mv8_function_create for a closure whose size is one of sizes
FunctionCreate(sizes) ==
  /\ HostRuns
  /\ \E c \in Closures : regs[c].st = "none"
  /\ FreeCount(handles) >= 1
  /\ \E func_size \in sizes :
       LET r == Registered(1, NextClosure, func_size)
       IN /\ handles' = r.hs
          /\ regs' = r.regs
  /\ iface' = Scoped(iface, "mv8_function_create")
  /\ UNCHANGED <<inst, uaf, dropCalls, rooted, stack, termReq, last, codec, second, plat>>

mv8_function_create == FunctionCreate({<<16, 0>>})

\* the collector's weak callback
callback_drop ==
  /\ inst # "aborted"
  /\ \E c \in Closures :
       /\ Live(regs[c].interface)
       /\ Collectible(c)
       /\ LET w == callback_drop_inner(World(Eng(handles, uaf), regs, dropCalls), c, "callback_drop")
          IN /\ handles' = w.e.hs
             /\ uaf' = w.e.uaf
             /\ regs' = w.regs
             /\ dropCalls' = w.drops
  /\ UNCHANGED <<inst, rooted, stack, termReq, last, codec, second, plat, iface>>

----------------------------------------------------------------------------
(* Strings, arrays and objects *)

mv8_string_new ==
  /\ HostRuns
  /\ FreeCount(handles) >= 1
  /\ handles' = NewPersistent(Eng(handles, uaf), StringValue, 1).e.hs
  /\ iface' = Scoped(iface, "mv8_string_new")
  /\ UNCHANGED <<inst, uaf, regs, dropCalls, rooted, stack, termReq, last, codec, second, plat>>

\* the values a property or an element can hold
Stored == {Num(42), ObjectValue} \cup {FnValue(c) : c \in rooted}

\* the closures a stored value adds to the script heap's references
Roots(v) == IF IsFunction(v) /\ v # ScriptFn THEN {RecordOf(v)} ELSE {}

mv8_array_get ==
  /\ HostRuns
  /\ \E h \in Handles, res \in EngineResults(Stored, ThrowValues) :
       /\ Held(h) /\ IsObject(handles[h].val)
       /\ LET e == Eng(handles, uaf)
              tc == TryCatchOf(res)
              r == IF res.k # "ok" THEN try_catch_err(e, tc) ELSE try_catch_ok(e, res.v)
          IN /\ Room(e, 1)
             /\ \E abort \in Aborts(r.ub) :
                  Deliver(Called("mv8_array_get", <<>>, e), r, tc, abort, stack, After(res), rooted)

mv8_array_set ==
  /\ HostRuns
  /\ \E h \in Handles, value_desc \in HostDescs, res \in EngineResults({UndefinedValue}, ThrowValues) :
       /\ Held(h) /\ IsObject(handles[h].val)
       /\ LET ds == <<value_desc>>
              d == DecodeAll(Eng(PassIn(handles, ds), uaf), ds, 1)
              tc == TryCatchOf(res)
              r == IF tc.caught THEN try_catch_err(d.e, tc) ELSE try_catch_ok_noval(d.e)
          IN /\ Distinct(ds \o <<Desc(Object, h)>>)
             /\ Room(d.e, 1)
             /\ \E abort \in Aborts(r.ub) :
                  Deliver(Called("mv8_array_set", ds, d.e), r, tc, abort, stack, After(res),
                          IF res.k = "ok" THEN rooted \cup Roots(d.values[1]) ELSE rooted)

mv8_object_get ==
  /\ HostRuns
  /\ \E h \in Handles, key_desc \in KeyDescs, res \in EngineResults(Stored, ThrowValues) :
       /\ Held(h) /\ IsObject(handles[h].val)
       /\ LET ds == <<key_desc>>
              d == DecodeAll(Eng(PassIn(handles, ds), uaf), ds, 1)
              tc == TryCatchOf(res)
              r == IF res.k # "ok" THEN try_catch_err(d.e, tc) ELSE try_catch_ok(d.e, res.v)
          IN /\ Distinct(ds \o <<Desc(Object, h)>>)
             /\ Room(d.e, 1)
             /\ \E abort \in Aborts(r.ub) :
                  Deliver(Called("mv8_object_get", ds, d.e), r, tc, abort, stack, After(res), rooted)

mv8_object_set ==
  /\ HostRuns
  /\ \E h \in Handles, key_desc \in KeyDescs, value_desc \in HostDescs,
        res \in EngineResults({UndefinedValue}, ThrowValues) :
       /\ Held(h) /\ IsObject(handles[h].val)
       /\ LET ds == <<key_desc, value_desc>>
              d == DecodeAll(Eng(PassIn(handles, ds), uaf), ds, 1)
              tc == TryCatchOf(res)
              r == IF tc.caught THEN try_catch_err(d.e, tc) ELSE try_catch_ok_noval(d.e)
          IN /\ Distinct(ds \o <<Desc(Object, h)>>)
             /\ Room(d.e, 1)
             /\ \E abort \in Aborts(r.ub) :
                  Deliver(Called("mv8_object_set", ds, d.e), r, tc, abort, stack, After(res),
                          IF res.k = "ok" THEN rooted \cup Roots(d.values[2]) ELSE rooted)

\* the property removed may have been the reference to a function object
mv8_object_remove ==
  /\ HostRuns
  /\ \E h \in Handles, key_desc \in KeyDescs, res \in EngineResults({UndefinedValue}, ThrowValues),
        gone \in SUBSET rooted :
       /\ Held(h) /\ IsObject(handles[h].val)
       /\ Cardinality(gone) <= 1
       /\ LET ds == <<key_desc>>
              d == DecodeAll(Eng(PassIn(handles, ds), uaf), ds, 1)
              tc == TryCatchOf(res)
              r == IF tc.caught THEN try_catch_err(d.e, tc) ELSE try_catch_ok_noval(d.e)
          IN /\ Distinct(ds \o <<Desc(Object, h)>>)
             /\ Room(d.e, 1)
             /\ res.k # "ok" => gone = {}
             /\ \E abort \in Aborts(r.ub) :
                  Deliver(Called("mv8_object_remove", ds, d.e), r, tc, abort, stack, After(res),
                          rooted \ gone)

mv8_object_has ==
  /\ HostRuns
  /\ \E h \in Handles, key_desc \in KeyDescs, res \in EngineResults({TrueValue, FalseValue}, ThrowValues) :
       /\ Held(h) /\ IsObject(handles[h].val)
       /\ LET ds == <<key_desc>>
              d == DecodeAll(Eng(PassIn(handles, ds), uaf), ds, 1)
              tc == TryCatchOf(res)
              r == IF tc.caught THEN try_catch_err(d.e, tc)
                   ELSE try_catch_ok_val(d.e, Desc(Boolean, IF IsTrue(res.v) THEN 1 ELSE 0))
          IN /\ Distinct(ds \o <<Desc(Object, h)>>)
             /\ Room(d.e, 1)
             /\ \E abort \in Aborts(r.ub) :
                  Deliver(Called("mv8_object_has", ds, d.e), r, tc, abort, stack, After(res), rooted)

mv8_object_keys ==
  /\ HostRuns
  /\ \E h \in Handles, res \in EngineResults({ArrayValue}, ThrowValues) :
       /\ Held(h) /\ IsObject(handles[h].val)
       /\ LET e == Eng(handles, uaf)
              tc == TryCatchOf(res)
              keys == NewPersistent(e, res.v, 1)
              r == IF tc.caught THEN try_catch_err(e, tc)
                   ELSE try_catch_ok_val(keys.e, Desc(Array, keys.h))
          IN /\ Room(e, 1)
             /\ \E abort \in Aborts(r.ub) :
                  Deliver(Called("mv8_object_keys", <<>>, e), r, tc, abort, stack, After(res), rooted)

----------------------------------------------------------------------------
(* Coercions *)

\* Value::BooleanValue
BooleanValue(v) ==
  IF IsUndefined(v) \/ IsNull(v) \/ IsFalse(v) \/ (IsNumber(v) /\ v.num = 0) THEN 0 ELSE 1

\* the byte returned is recorded as a Boolean descriptor
mv8_coerce_boolean ==
  /\ HostRuns
  /\ \E desc \in HostDescs :
       LET ds == <<desc>>
           d == DecodeAll(Eng(PassIn(handles, ds), uaf), ds, 1)
           r == try_catch_ok_val(d.e, Desc(Boolean, BooleanValue(d.values[1])))
       IN Deliver(Called("mv8_coerce_boolean", ds, d.e), r, NoCatch, FALSE, stack, termReq, rooted)

\* converting an object runs its script and may throw
mv8_coerce_number ==
  /\ HostRuns
  /\ \E desc \in HostDescs, res \in EngineResults({Num(42)}, ThrowValues) :
       LET ds == <<desc>>
           d == DecodeAll(Eng(PassIn(handles, ds), uaf), ds, 1)
           tc == TryCatchOf(res)
           n == IF IsNumber(d.values[1]) THEN d.values[1].num ELSE res.v.num
           r == IF tc.caught THEN try_catch_err(d.e, tc)
                ELSE try_catch_ok_val(d.e, Desc(Number, n))
       IN /\ Room(d.e, 1)
          /\ ~IsObject(d.values[1]) => res.k = "ok"
          /\ \E abort \in Aborts(r.ub) :
               Deliver(Called("mv8_coerce_number", ds, d.e), r, tc, abort, stack, After(res), rooted)

mv8_coerce_string ==
  /\ HostRuns
  /\ \E desc \in HostDescs, res \in EngineResults({StringValue}, ThrowValues) :
       LET ds == <<desc>>
           d == DecodeAll(Eng(PassIn(handles, ds), uaf), ds, 1)
           tc == TryCatchOf(res)
           string == NewPersistent(d.e, IF IsString(d.values[1]) THEN d.values[1] ELSE res.v, 1)
           r == IF tc.caught THEN try_catch_err(d.e, tc)
                ELSE try_catch_ok_val(string.e, Desc(String, string.h))
       IN /\ Room(d.e, 1)
          /\ ~IsObject(d.values[1]) => res.k = "ok"
          /\ \E abort \in Aborts(r.ub) :
               Deliver(Called("mv8_coerce_string", ds, d.e), r, tc, abort, stack, After(res), rooted)

\* the object is taken to have the shape the function reads
mv8_data_node_from_js ==
  /\ HostRuns
  /\ \E data_desc \in HostDescs :
       /\ data_desc.tag = Object
       /\ LET ds == <<data_desc>>
              d == DecodeAll(Eng(PassIn(handles, ds), uaf), ds, 1)
          IN Deliver(Called("mv8_data_node_from_js", ds, d.e), try_catch_ok_noval(d.e), NoCatch, FALSE,
                     stack, termReq, rooted)

----------------------------------------------------------------------------
(* Evaluation, calls and the trampoline *)

Frame(t, op, c, base) == [t |-> t, op |-> op, reg |-> c, base |-> base]

ScriptDepth == Cardinality({i \in 1..Len(stack) : stack[i].t = "script"})

Pop(st, n) == SubSeq(st, 1, Len(st) - n)

\* the receiver an API function sees: undefined and null become the global
\* object, other primitives a wrapper object
ConvertReceiver(v) ==
  IF IsObject(v) THEN v
  ELSE IF IsUndefined(v) \/ IsNull(v) THEN GlobalObject
  ELSE ObjectValue

\* rust_callback up to the call of main_callback_wrapper_func: this and the
\* arguments are encoded, in order, for the dispatcher
rust_callback_enter(e, this_value, args) ==
  LET this_desc == value_to_desc(e, this_value)
      arg_descs == EncodeAll(this_desc.e, args, 1)
  IN [e |-> arg_descs.e, this_desc |-> this_desc.desc, arg_descs |-> arg_descs.descs]

\* the dispatcher was given this and the arguments, each argument in its place
InOrder(cb, this_value, args) ==
  /\ Denotes(cb.e.hs, cb.this_desc) = this_value
  /\ Len(cb.arg_descs) = Len(args)
  /\ \A i \in 1..Len(args) :
       /\ cb.arg_descs[i].tag = TagOf(args[i])
       /\ IsRefDesc(cb.arg_descs[i]) \/ cb.arg_descs[i].tag = Number
            => Denotes(cb.e.hs, cb.arg_descs[i]) = args[i]

\* a faulty rust_callback_leave that returns the value whatever is_exception is
rust_callback_leave_noexc(e, result) ==
  LET r == desc_to_value(e, result.value_desc, 0)
  IN [e |-> r.e, value |-> r.value, thrown |-> FALSE]

\* rust_callback after the dispatcher returned result: the value is thrown
\* when is_exception is set, and is the return value otherwise
rust_callback_leave(e, result) ==
  LET r == desc_to_value(e, result.value_desc, 0)
  IN [e |-> r.e, value |-> r.value, thrown |-> result.is_exception # 0]

\* rust_callback decoded the dispatcher's Outcome once, and threw its value
\* exactly when is_exception was set
TrampolineOk(hs, result, cb) ==
  /\ cb.e.dec = <<result.value_desc>>
  /\ cb.value = Denotes(hs, result.value_desc)
  /\ cb.thrown <=> result.is_exception # 0

\* mv8_interface_eval: &*origin is undefined when name_data is null; a script
\* that compiles is run
mv8_interface_eval ==
  /\ HostRuns
  /\ ScriptDepth < MaxDepth
  /\ \E name \in BOOLEAN, compiles \in BOOLEAN, abort \in BOOLEAN :
       /\ abort => ~name
       /\ LET e == Eng(handles, uaf)
              base == [Called("mv8_interface_eval", <<>>, e) EXCEPT !.name = name]
              tc == Thrown(ErrorValue)
          IN IF abort \/ ~compiles
             THEN /\ Room(e, 1)
                  /\ Deliver(base, try_catch_err(e, tc), IF abort THEN NoCatch ELSE tc, abort,
                             stack, termReq, rooted)
             ELSE /\ stack' = Append(stack, Frame("script", "mv8_interface_eval", 0, [base EXCEPT !.ran = TRUE]))
                  /\ iface' = EnterScope(iface, "mv8_interface_eval")
                  /\ UNCHANGED <<inst, handles, uaf, regs, dropCalls, rooted, termReq, last, codec, second, plat>>

\* mv8_function_call and mv8_function_call_new up to func->Call or
\* func->NewInstance: a function made by mv8_function_create runs
\* rust_callback, any other function runs script
CallFunction(op, h, ds, isNew) ==
  /\ HostRuns
  /\ ScriptDepth < MaxDepth
  /\ Held(h) /\ IsFunction(handles[h].val)
  /\ Distinct(ds \o <<Desc(Function, h)>>)
  /\ LET d == DecodeAll(Eng(PassIn(handles, ds), uaf), ds, 1)
         base == [Called(op, ds, d.e) EXCEPT !.ran = TRUE, !.nargs = Len(ds) - (IF isNew THEN 0 ELSE 1)]
         c == RecordOf(handles[h].val)
         this_value == IF isNew THEN ObjectValue ELSE ConvertReceiver(d.values[1])
         args == IF isNew THEN d.values ELSE Tail(d.values)
         cb == rust_callback_enter(d.e, this_value, args)
         given == <<cb.this_desc>> \o cb.arg_descs
     IN IF handles[h].val = ScriptFn
        THEN /\ stack' = Append(stack, Frame("script", op, 0, base))
             /\ handles' = d.e.hs
             /\ uaf' = d.e.uaf
             /\ iface' = EnterScope(iface, op)
        ELSE /\ Room(d.e, Needs(<<this_value>> \o args))
             /\ stack' = stack \o <<Frame("script", op, c, base),
                                    Frame("native", "rust_callback", c,
                                          [Given(given, cb.e) EXCEPT !.inorder = InOrder(cb, this_value, args)])>>
             /\ handles' = cb.e.hs
             /\ uaf' = (cb.e.uaf \/ regs[c].st # "registered")
             /\ iface' = EnterScope(EnterScope(iface, op), "rust_callback")
  /\ UNCHANGED <<inst, regs, dropCalls, rooted, termReq, last, codec, second, plat>>

\* mv8_function_call with at most n arguments
FunctionCall(n) ==
  \E h \in Handles, this_desc \in HostDescs, arg_descs \in SeqsUpTo(HostDescs, n) :
    CallFunction("mv8_function_call", h, <<this_desc>> \o arg_descs, FALSE)

mv8_function_call == FunctionCall(MaxArgs)

mv8_function_call_new ==
  \E h \in Handles, arg_descs \in SeqsUpTo(HostDescs, MaxArgs) :
    CallFunction("mv8_function_call_new", h, arg_descs, TRUE)

\* a faulty Finish that makes the handle of mv8_function_call_new before it
\* looks at how the call ended
Finish_early(op, e, res) ==
  LET tc == TryCatchOf(res)
      object == NewPersistent(e, IF IsObject(res.v) THEN res.v ELSE ObjectValue, 0)
      made == IF op = "mv8_function_call_new" /\ FreeCount(e.hs) >= 2 THEN object.e ELSE e
  IN IF res.k # "ok" THEN try_catch_err([made EXCEPT !.new = <<>>], tc)
     ELSE IF op = "mv8_function_call_new"
     THEN try_catch_ok_val([object.e EXCEPT !.hs[object.h].held = 1], Desc(Object, object.h))
     ELSE try_catch_ok(e, res.v)

\* how func->Call, func->NewInstance or script->Run ended, as the operation
\* returns it: mv8_function_call_new wraps the object in a new handle
Finish(op, e, res) ==
  LET tc == TryCatchOf(res)
      object == NewPersistent(e, IF IsObject(res.v) THEN res.v ELSE ObjectValue, 1)
  IN IF res.k # "ok" THEN try_catch_err(e, tc)
     ELSE IF op = "mv8_function_call_new" THEN try_catch_ok_val(object.e, Desc(Object, object.h))
     ELSE try_catch_ok(e, res.v)

\* the script of the innermost operation ends
ScriptEnds ==
  /\ inst = "live" /\ last.op = "none"
  /\ stack # <<>>
  /\ Top.t = "script" /\ Top.reg = 0
  /\ \E res \in EngineResults(ScriptValues \cup {ScriptFn}, ScriptValues \cup {DateValue}) :
       LET e == Eng(handles, uaf)
           r == Finish(Top.op, e, res)
       IN /\ Room(e, 1)
          /\ \E abort \in Aborts(r.ub) :
               Deliver(Top.base, r, TryCatchOf(res), abort, Pop(stack, 1), After(res), rooted)

\* the script of the innermost operation calls a function object it references
ScriptCallsNative ==
  /\ inst = "live" /\ last.op = "none"
  /\ stack # <<>>
  /\ Top.t = "script" /\ Top.reg = 0
  /\ \E c \in rooted, args \in SeqsUpTo({Num(42), StringValue}, MaxArgs) :
       LET cb == rust_callback_enter(Eng(handles, uaf), GlobalObject, args)
           given == <<cb.this_desc>> \o cb.arg_descs
       IN /\ Room(Eng(handles, uaf), Needs(<<GlobalObject>> \o args))
          /\ stack' = Append(stack, Frame("native", "rust_callback", c,
                                          [Given(given, cb.e) EXCEPT !.inorder = InOrder(cb, GlobalObject, args)]))
          /\ handles' = cb.e.hs
          /\ uaf' = (cb.e.uaf \/ regs[c].st # "registered")
  /\ iface' = EnterScope(iface, "rust_callback")
  /\ UNCHANGED <<inst, regs, dropCalls, rooted, termReq, last, codec, second, plat>>

\* the closure returns result to rust_callback; a call made by
\* mv8_function_call or mv8_function_call_new returns with it
HostReturns ==
  /\ HostRuns
  /\ stack # <<>>
  /\ Top.t = "native"
  /\ \E value_desc \in HostDescs \cup {Desc(Undefined, 0)}, is_exception \in {0, 1} :
       LET ds == <<value_desc>>
           cb == rust_callback_leave(Eng(PassIn(handles, ds), uaf), Outcome(value_desc, is_exception))
           ok == TrampolineOk(handles, Outcome(value_desc, is_exception), cb)
           ret == [called |-> TRUE, is_exception |-> is_exception, value |-> Denotes(handles, value_desc)]
           below == stack[Len(stack) - 1]
           res == [k |-> IF cb.thrown THEN "throw" ELSE "ok", v |-> cb.value]
           e == [cb.e EXCEPT !.rel = <<>>, !.new = <<>>]
           r == Finish(below.op, e, res)
       IN IF below.reg = Top.reg
          THEN /\ Room(e, 1)
               /\ Deliver([below.base EXCEPT !.tramp = ok, !.ret = ret], r, TryCatchOf(res), FALSE,
                          Pop(stack, 2), termReq, rooted)
          ELSE /\ handles' = cb.e.hs
               /\ uaf' = cb.e.uaf
               /\ stack' = [Pop(stack, 1) EXCEPT ![Len(stack) - 1].base.tramp = @ /\ ok]
               /\ iface' = LeaveScope(iface)
               /\ UNCHANGED <<inst, regs, dropCalls, rooted, termReq, last, codec, second, plat>>

Next ==
  \/ mv8_interface_new
  \/ mv8_interface_drop
  \/ mv8_interface_global
  \/ mv8_interface_terminate_execution
  \/ mv8_value_ptr_clone
  \/ mv8_value_ptr_drop
  \/ mv8_function_create
  \/ callback_drop
  \/ mv8_string_new
  \/ mv8_array_get
  \/ mv8_array_set
  \/ mv8_object_get
  \/ mv8_object_set
  \/ mv8_object_remove
  \/ mv8_object_has
  \/ mv8_object_keys
  \/ mv8_coerce_boolean
  \/ mv8_coerce_number
  \/ mv8_coerce_string
  \/ mv8_data_node_from_js
  \/ mv8_interface_eval
  \/ mv8_function_call
  \/ mv8_function_call_new
  \/ ScriptEnds
  \/ ScriptCallsNative
  \/ HostReturns
  \/ HostReceives

Spec == Init /\ [][Next]_vars

----------------------------------------------------------------------------
(* Calls of a registered function with up to CallArgs arguments, on a      *)
(* table of CallHandles handles.                                           *)

InitCall ==
  /\ inst = "none"
  /\ handles = [h \in 1..(CallHandles + MaxRegs) |-> FreeSlot]
  /\ uaf = FALSE
  /\ regs = [c \in 1..MaxRegs |-> NoReg]
  /\ dropCalls = [c \in 1..MaxRegs |-> <<>>]
  /\ rooted = {}
  /\ stack = <<>>
  /\ termReq = FALSE
  /\ last = NoLast
  /\ codec = [pc |-> "off", v |-> UndefinedValue, desc |-> NoDesc, r |-> UndefinedValue]
  /\ plat = NoPlat
  /\ iface = NoIface
  /\ second = NoSecond

CallWithArgs == FunctionCall(CallArgs)

NextCall ==
  \/ mv8_interface_new
  \/ mv8_function_create
  \/ mv8_string_new
  \/ mv8_value_ptr_drop
  \/ CallWithArgs
  \/ HostReturns
  \/ HostReceives

SpecCall == InitCall /\ [][NextCall]_vars

----------------------------------------------------------------------------
(* Two Interfaces in one process: each has its isolate, and the handles    *)
(* and records made through it.                                            *)

InitTwo ==
  /\ inst = "none"
  /\ handles = [h \in 1..(TwoHandles + TwoRegs) |-> FreeSlot]
  /\ uaf = FALSE
  /\ regs = [c \in 1..TwoRegs |-> NoReg]
  /\ dropCalls = [c \in 1..TwoRegs |-> <<>>]
  /\ rooted = {}
  /\ stack = <<>>
  /\ termReq = FALSE
  /\ last = NoLast
  /\ codec = [pc |-> "off", v |-> UndefinedValue, desc |-> NoDesc, r |-> UndefinedValue]
  /\ plat = NoPlat
  /\ iface = NoIface
  /\ second = NoSecond

\* the host runs, and the second Interface is in use
SecondRuns ==
  /\ inst # "aborted"
  /\ second.inst = "live"
  /\ last.op = "none"
  /\ IF stack = <<>> THEN TRUE ELSE Top.t = "native"

\* mv8_interface_new for the second Interface
mv8_interface_new_second ==
  /\ inst # "aborted"
  /\ second.inst = "none"
  /\ last.op = "none"
  /\ IF stack = <<>> THEN TRUE ELSE Top.t = "native"
  /\ plat' = IsolateNew(Alone(Enter(plat, 1), 1), 1)
  /\ second' = [inst |-> "live", iface |-> Scoped([NoIface EXCEPT !.alive = Owned], "mv8_interface_new")]
  /\ UNCHANGED <<inst, handles, uaf, regs, dropCalls, rooted, stack, termReq, last, codec, iface>>

\* mv8_function_create on the second Interface
mv8_function_create_second ==
  /\ SecondRuns
  /\ \E c \in Closures : regs[c].st = "none"
  /\ FreeCount(handles) >= 1
  /\ LET r == Registered(2, NextClosure, <<16, 0>>)
     IN /\ handles' = r.hs
        /\ regs' = r.regs
  /\ second' = [second EXCEPT !.iface = Scoped(@, "mv8_function_create")]
  /\ UNCHANGED <<inst, uaf, dropCalls, rooted, stack, termReq, last, codec, plat, iface>>

\* mv8_interface_drop of the second Interface
mv8_interface_drop_second ==
  /\ SecondRuns
  /\ LET t == Teardown(Torn(World(EngOf(2, handles, uaf), regs, dropCalls), second.iface))
     IN /\ handles' = t.w.e.hs
        /\ uaf' = t.w.e.uaf
        /\ regs' = t.w.regs
        /\ dropCalls' = t.w.drops
        /\ second' = [inst |-> "dropped", iface |-> t.f]
  /\ UNCHANGED <<inst, rooted, stack, termReq, last, codec, plat, iface>>

NextTwo ==
  \/ mv8_interface_new
  \/ mv8_interface_new_second
  \/ mv8_function_create
  \/ mv8_function_create_second
  \/ mv8_string_new
  \/ mv8_value_ptr_drop
  \/ mv8_function_call
  \/ HostReturns
  \/ HostReceives
  \/ callback_drop
  \/ mv8_interface_drop
  \/ mv8_interface_drop_second

SpecTwo == InitTwo /\ [][NextTwo]_vars

----------------------------------------------------------------------------
(* Registrations of closures of any size, and the external memory the      *)
(* isolate is told of.                                                     *)

\* closure sizes at the limits of the limbs and of uint32_t
FuncSizes == {<<lo, hi>> : lo \in {0, 1, Limb - sizeof_RustCallback, Limb - 1}, hi \in {0, 1, Limb - 1}}

CreateOfSize == FunctionCreate(FuncSizes)

RECURSIVE ExternalMemory(_, _)
\* the sum of the adjustments made for the closures from c on
ExternalMemory(rs, c) ==
  IF c > Len(rs) THEN ZeroW
  ELSE AddW(AddW(rs[c].credit, rs[c].debit), ExternalMemory(rs, c + 1))

NextMem ==
  \/ mv8_interface_new
  \/ CreateOfSize
  \/ mv8_value_ptr_clone
  \/ mv8_value_ptr_drop
  \/ callback_drop
  \/ mv8_interface_drop
  \/ HostReceives

SpecMem == Init /\ [][NextMem]_vars

----------------------------------------------------------------------------
(* Threads that create Interfaces at the same time: the steps of init_v8   *)
(* interleave.                                                             *)

Rest == <<inst, handles, uaf, regs, dropCalls, rooted, stack, termReq, last, codec, iface, second>>

ThreadCallsNew ==
  \E t \in Threads :
    /\ plat.pc[t] = "idle"
    /\ plat' = Enter(plat, t)
    /\ UNCHANGED Rest

init_v8 ==
  \E t \in Threads :
    /\ plat.pc[t] \notin {"idle", "returned"}
    /\ plat.pc[t] = "lock" => plat.platform_lock = 0
    /\ \E seen \in Reads(plat, t) : plat' = init_v8_step(plat, t, seen)
    /\ UNCHANGED Rest

ThreadCreatesIsolate ==
  \E t \in Threads :
    /\ plat.pc[t] = "returned"
    /\ plat' = IsolateNew(plat, t)
    /\ UNCHANGED Rest

NextInit ==
  \/ ThreadCallsNew
  \/ init_v8
  \/ ThreadCreatesIsolate

SpecInit == Init /\ [][NextInit]_vars

----------------------------------------------------------------------------
(* The codec harness: value_to_desc and desc_to_value on each value of a   *)
(* bounded set.                                                            *)

Ids == 1..MaxIds

\* the identity of an object created after the inputs
FreshId == MaxIds + 1

CodecValues ==
  {UndefinedValue, NullValue, TrueValue, FalseValue}
    \cup {V("number", n, 0) : n \in -3..5}
    \cup {V(k, 0, i) : k \in {"string", "array", "function", "object", "symbol", "bigint"}, i \in Ids}
    \cup {V("date", ms, i) : ms \in {0, 7}, i \in Ids}

InitCodec ==
  /\ inst = "live"
  /\ handles = [h \in 1..(MaxHandles + MaxRegs) |-> FreeSlot]
  /\ uaf = FALSE
  /\ regs = [c \in 1..MaxRegs |-> NoReg]
  /\ dropCalls = [c \in 1..MaxRegs |-> <<>>]
  /\ rooted = {}
  /\ stack = <<>>
  /\ termReq = FALSE
  /\ last = NoLast
  /\ \E v \in CodecValues : codec = [pc |-> "value", v |-> v, desc |-> NoDesc, r |-> UndefinedValue]
  /\ plat = Initialized
  /\ iface = [NoIface EXCEPT !.alive = Owned]
  /\ second = NoSecond

CodecEncode ==
  /\ codec.pc = "value"
  /\ LET r == value_to_desc(Eng(handles, uaf), codec.v)
     IN /\ handles' = r.e.hs
        /\ uaf' = r.e.uaf
        /\ codec' = [codec EXCEPT !.pc = "desc", !.desc = r.desc]
  /\ UNCHANGED <<inst, regs, dropCalls, rooted, stack, termReq, last, plat, iface, second>>

CodecDecode ==
  /\ codec.pc = "desc"
  /\ LET r == desc_to_value(Eng(handles, uaf), codec.desc, FreshId)
     IN /\ handles' = r.e.hs
        /\ uaf' = r.e.uaf
        /\ codec' = [codec EXCEPT !.pc = "decoded", !.r = r.value]
  /\ UNCHANGED <<inst, regs, dropCalls, rooted, stack, termReq, last, plat, iface, second>>

NextCodec ==
  \/ CodecEncode
  \/ CodecDecode

SpecCodec == InitCodec /\ [][NextCodec]_vars

----------------------------------------------------------------------------
(* Properties *)

\* an operation has returned and the host has not yet taken the result
Returned == inst = "live" /\ last.op # "none"

\* C1: main_callback_drop_func is called at most once for each registered
\* closure, whatever the order of calls, collections and the teardown
C1_DropAtMostOnce == \A c \in Closures : Len(dropCalls[c]) <= 1

\* the instance was torn down after the collector had finalized a closure
C1_Witness ==
  /\ inst = "dropped"
  /\ \E c \in Closures : regs[c].st = "finalized" /\ dropCalls[c] = <<"callback_drop">>

\* C2: when mv8_interface_drop has returned, every registration made through
\* the instance is finalized: its drop call was made and its handle is gone
C2_AllFinalizedAfterDrop ==
  inst = "dropped" =>
    \A c \in Closures :
      /\ regs[c].st # "registered"
      /\ regs[c].st = "finalized" => Len(dropCalls[c]) = 1 /\ ~handles[OwnSlot(c)].live

\* the teardown finalized a closure that was never collected and whose strong
\* handle the host still holds
C2_Witness ==
  /\ inst = "dropped"
  /\ \E c \in Closures :
       /\ dropCalls[c] = <<"mv8_interface_drop">>
       /\ \E h \in Handles : handles[h].held > 0 /\ handles[h].val = FnValue(c)

\* the exported operations that receive descriptors
InputOps ==
  {"mv8_array_set", "mv8_object_get", "mv8_object_set", "mv8_object_remove", "mv8_object_has",
   "mv8_coerce_boolean", "mv8_coerce_number", "mv8_coerce_string", "mv8_function_call",
   "mv8_function_call_new", "mv8_data_node_from_js"}

\* C3: an operation that receives descriptors calls desc_to_value once on
\* each of them on every path, so that the handle of each reference
\* descriptor is released once and no released handle is read
C3_DecodedOnce ==
  /\ ~uaf
  /\ last.op \in InputOps => last.once
  /\ \A i \in 1..Len(stack) : stack[i].base.op \in InputOps => stack[i].base.once

\* mv8_object_set was given a handle and returned an exception
C3_Witness ==
  /\ Returned
  /\ last.op = "mv8_object_set"
  /\ last.refs >= 1
  /\ last.out.is_exception = 1

\* C4: no operation leaves a handle that is neither the host's nor released:
\* a live handle is held by the host, or is the weak handle of a registered
\* closure; so once the host has dropped what it was given, only those remain
C4_HandleBalance ==
  inst = "live" =>
    \A h \in AllHandles :
      handles[h].live =>
        \/ handles[h].held >= 1
        \/ handles[h].weak /\ \E c \in Closures : regs[c].st = "registered" /\ regs[c].value_ptr = h

\* a call of a native function returned an exception that carries a handle
C4_Witness ==
  /\ Returned
  /\ last.op \in {"mv8_function_call", "mv8_function_call_new"}
  /\ last.out.is_exception = 1
  /\ IsRefDesc(last.out.value_desc)

\* C5, as stated: decoding the descriptor of a value gives the value back,
\* with its type, payload and identity
C5_RoundTrip == codec.pc = "decoded" => codec.r = codec.v

\* C5, as the code has it: undefined, null, booleans, numbers, strings,
\* arrays, functions and other objects come back as they were; a date comes
\* back as a new Date object of the same time; any other value as undefined
C5_RoundTripOfDescribed ==
  codec.pc = "decoded" =>
    IF codec.v.kind \in {"undefined", "null", "boolean", "number", "string", "array", "function", "object"}
    THEN codec.r = codec.v
    ELSE IF codec.v.kind = "date"
    THEN codec.r.kind = "date" /\ codec.r.num = codec.v.num /\ codec.r.id # codec.v.id
    ELSE codec.r = UndefinedValue

\* an object went through both directions and its handle was released
C5_Witness ==
  /\ codec.pc = "decoded"
  /\ codec.v.kind = "object"
  /\ codec.desc.tag = Object
  /\ ~handles[codec.desc.payload].live

\* the tag the classification gives each kind of value
TagFor(v) ==
  CASE v.kind = "undefined" -> Undefined
    [] v.kind = "null" -> Null
    [] v.kind = "boolean" -> Boolean
    [] v.kind = "number" -> Number
    [] v.kind = "date" -> Date
    [] v.kind = "string" -> String
    [] v.kind = "array" -> Array
    [] v.kind = "function" -> Function
    [] v.kind = "object" -> Object
    [] OTHER -> Undefined

\* C6: value_to_desc gives every value a descriptor: Undefined, Null, Boolean
\* with 1 or 0, Number with the same number, Date with the milliseconds,
\* String, Array, Function, Object for any other object, Undefined for the rest
C6_Classification ==
  codec.pc \in {"desc", "decoded"} =>
    /\ codec.desc.tag = TagFor(codec.v)
    /\ codec.v.kind \in {"boolean", "number", "date"} => codec.desc.payload = codec.v.num
    /\ codec.v.kind \in {"undefined", "null", "symbol", "bigint"} => codec.desc.payload = 0
    /\ (codec.pc = "desc" /\ IsRefDesc(codec.desc)) => handles[codec.desc.payload].val = codec.v

\* an array was classified as Array and a symbol as Undefined
C6_Witness ==
  /\ codec.pc = "desc"
  /\ \/ codec.v.kind = "array" /\ codec.desc.tag = Array
     \/ codec.v.kind = "symbol" /\ codec.desc.tag = Undefined

\* C7: a descriptor an operation produces owns one handle, created for it,
\* when its tag is Array, Function, Object or String, and none otherwise;
\* no handle belongs to two descriptors
C7_OwnsOneFreshHandle ==
  /\ Returned => last.fresh
  /\ \A i \in 1..Len(stack) : stack[i].base.fresh
  /\ \A h \in AllHandles : handles[h].held <= 1

\* mv8_object_keys returned an Array descriptor while the host held another handle
C7_Witness ==
  /\ Returned
  /\ last.op = "mv8_object_keys"
  /\ last.out = Outcome(Desc(Array, 2), 0)
  /\ handles[1].held = 1

\* an exception other than a termination was caught by the returned operation
Caught == Returned /\ last.tc.caught /\ ~last.tc.terminated

\* what the descriptor of a thrown value denotes
Described(v) ==
  IF v.kind \in {"undefined", "null", "boolean", "number", "string", "array", "function", "object"} THEN v
  ELSE IF v.kind = "date" THEN V("date", v.num, 0)
  ELSE UndefinedValue

\* C8, as stated: a caught exception is returned with is_exception = 1 and a
\* descriptor of the thrown value itself, for every kind of value
C8_ThrownValueUnchanged ==
  Caught =>
    /\ last.out.is_exception = 1
    /\ Denotes(handles, last.out.value_desc) = last.tc.exception

\* C8, as the code has it: the descriptor is value_to_desc of the thrown
\* value: the value itself for what value_to_desc classifies (throw 42 gives
\* Number 42), the milliseconds for a Date, Undefined for any other value
C8_ThrownValueDescribed ==
  Caught =>
    /\ last.out.is_exception = 1
    /\ last.out.value_desc.tag = TagFor(last.tc.exception)
    /\ Denotes(handles, last.out.value_desc) = Described(last.tc.exception)
    /\ last.tc.exception = Num(42) => last.out.value_desc = Desc(Number, 84)

\* mv8_interface_eval ran a script that threw 42
C8_Witness ==
  /\ Caught
  /\ last.op = "mv8_interface_eval"
  /\ last.ran
  /\ last.tc.exception = Num(42)
  /\ last.out = Outcome(Desc(Number, 84), 1)

\* C9: an operation whose script was terminated returns is_exception = 1 with
\* an Error object of the message "execution timed out", and the process
\* does not abort
C9_TerminationIsTimeout ==
  (last.op # "none" /\ last.tc.terminated) =>
    /\ inst # "aborted"
    /\ last.out.is_exception = 1
    /\ last.out.value_desc.tag = Object
    /\ Denotes(handles, last.out.value_desc) = TimeoutError

\* C10: mv8_interface_eval returns a success Outcome when the script compiled
\* and ran, or an exception Outcome when it did not compile, and then was not
\* run, or when the run failed; with or without a name
C10_EvalOutcome ==
  last.op = "mv8_interface_eval" =>
    /\ inst # "aborted"
    /\ \/ last.out.is_exception = 0 /\ last.ran /\ ~last.tc.caught
       \/ last.out.is_exception = 1 /\ last.tc.caught
    /\ ~last.ran => last.tc = Thrown(ErrorValue)

\* the operations that run script and may throw
ThrowingOps ==
  {"mv8_array_get", "mv8_array_set", "mv8_object_get", "mv8_object_set", "mv8_object_remove",
   "mv8_object_has", "mv8_object_keys", "mv8_coerce_number", "mv8_coerce_string",
   "mv8_function_call", "mv8_function_call_new"}

\* C11: an operation that may throw returns is_exception = 1 exactly when the
\* engine raised an exception while it ran; the exception is in the TryCatch
\* of that operation and in no other
C11_ExceptionIffRaised ==
  (Returned /\ last.op \in ThrowingOps) =>
    /\ last.out.is_exception = 1 <=> last.tc.caught
    /\ last.out.is_exception \in {0, 1}

\* mv8_object_has returned the exception its engine call raised
C11_Witness ==
  /\ Returned
  /\ last.op = "mv8_object_has"
  /\ last.tc = Thrown(Num(42))
  /\ last.out = Outcome(Desc(Number, 84), 1)

\* C12: a call of a registered function makes one call of the dispatcher,
\* whose Outcome is decoded once and decides the call: its value is thrown
\* when is_exception is set and returned otherwise
C12_OutcomeDecidesCall ==
  /\ \A i \in 1..Len(stack) : stack[i].base.tramp
  /\ Returned =>
       /\ last.tramp
       /\ (last.op = "mv8_function_call" /\ last.ret.called) =>
            IF last.ret.is_exception # 0
            THEN last.out.is_exception = 1 /\ last.tc = Thrown(last.ret.value)
            ELSE /\ last.out.is_exception = 0
                 /\ ~last.tc.caught
                 /\ Denotes(handles, last.out.value_desc) = last.ret.value

\* a closure called with [Number(1), String] returned its second argument,
\* and mv8_function_call returned a success Outcome of that string
C12_Witness ==
  /\ Returned
  /\ last.op = "mv8_function_call"
  /\ last.nargs = 2
  /\ last.refs = 1
  /\ last.ret = [called |-> TRUE, is_exception |-> 0, value |-> StringValue]
  /\ last.out.is_exception = 0
  /\ last.out.value_desc.tag = String
  /\ Denotes(handles, last.out.value_desc) = StringValue

\* C13: the dispatcher is called for the closure of the function called, with
\* a descriptor of this and one descriptor for each argument, in call order
C13_ArgumentsInOrder ==
  \A i \in 1..Len(stack) :
    stack[i].t = "native" =>
      /\ stack[i].base.inorder
      /\ stack[i].base.nargs \in 0..CallArgs
      /\ regs[stack[i].reg].st # "none"
      /\ (i > 1 /\ stack[i - 1].reg # 0) => stack[i - 1].reg = stack[i].reg

\* the dispatcher holds this, a number and a string, given in that order
C13_Witness ==
  /\ stack # <<>>
  /\ Top.t = "native"
  /\ Top.base.nargs = 2
  /\ Top.base.refs = 2
  /\ Top.base.inorder
  /\ \E h \in Handles : Held(h) /\ IsString(handles[h].val)

\* mv8_value_ptr_clone made the handle n: a new handle of the value of a handle
\* the host holds, every other handle as it was
CloneStep(n) ==
  /\ ~handles[n].live
  /\ handles'[n] = [live |-> TRUE, val |-> handles'[n].val, cls |-> 0, weak |-> FALSE, held |-> 1, iso |-> 1]
  /\ \E h \in Handles \ {n} : Held(h) /\ handles[h].val = handles'[n].val
  /\ \A g \in AllHandles \ {n} : handles'[g] = handles[g]
  /\ uaf' = uaf /\ regs' = regs /\ dropCalls' = dropCalls

\* mv8_value_ptr_drop released the handle h and no other, and a function that
\* another strong handle refers to did not become collectible
DropStep(h) ==
  /\ Held(h)
  /\ ~handles'[h].live
  /\ \A g \in AllHandles \ {h} : handles'[g] = handles[g]
  /\ uaf' = uaf /\ regs' = regs /\ dropCalls' = dropCalls
  /\ \A c \in Closures :
       (\E g \in AllHandles \ {h} : handles[g].live /\ ~handles[g].weak /\ handles[g].val = FnValue(c))
         => ~Collectible(c)'

\* C14: mv8_value_ptr_clone makes a new handle and leaves the original as it
\* was; mv8_value_ptr_drop releases the handle given and no other, so a value
\* stays retained while a handle of it is live
C14_CloneDropIndependent ==
  [][/\ (last.op = "none" /\ last'.op = "mv8_value_ptr_clone") => CloneStep(last'.out.value_desc.payload)
     /\ (last.op = "none" /\ last'.op = "mv8_value_ptr_drop") => DropStep(last'.out.value_desc.payload)]_vars

\* a handle of a registered function was dropped while its clone is live, and
\* the function was not finalized
C14_Witness ==
  /\ Returned
  /\ last.op = "mv8_value_ptr_drop"
  /\ last.out.value_desc.tag = Function
  /\ ~handles[last.out.value_desc.payload].live
  /\ \E g \in Handles, c \in Closures :
       /\ Held(g)
       /\ handles[g].val = FnValue(c)
       /\ regs[c].st = "registered"
       /\ c \notin rooted

\* C15: the steps of the platform initialization run at most once each and
\* in order, whatever the interleaving of the threads in init_v8, and they have
\* all run once some call has returned and no thread is inside; a later call
\* adds no step
C15_InitializedOnce ==
  /\ \E n \in 0..Len(InitSequence) : plat.log = SubSeq(InitSequence, 1, n)
  /\ (plat.current_platform /\ \A t \in Threads : plat.pc[t] \in {"idle", "returned"})
       => plat.log = InitSequence

\* two threads called init_v8 for the first time together: one initialized,
\* the other waited for the lock and found the platform there; both returned
C15_Witness ==
  /\ plat.log = InitSequence
  /\ plat.skipped # {}
  /\ \A t \in Threads : plat.pc[t] = "idle"

Releases == <<"priv_rust_callback", "context", "isolate", "allocator">>

\* C16: mv8_interface_drop finalizes every outstanding registration first and
\* then releases the private token, the context, the isolate and the
\* allocator, in this order; no finalization reads a released one
C16_SweepBeforeRelease ==
  inst = "dropped" =>
    /\ ~uaf
    /\ iface.alive = {}
    /\ \E n \in 0..Len(regs) : iface.log = [i \in 1..n |-> "finalize"] \o Releases

\* an Interface with a registered function was dropped: the sweep finalized it
C16_Witness ==
  /\ inst = "dropped"
  /\ iface.log = <<"finalize">> \o Releases
  /\ \E c \in Closures : dropCalls[c] # <<>> /\ regs[c].st = "finalized"

\* C17: rust_callback runs only for a closure whose record is allocated: no
\* closure is called after its drop call, none is finalized while a call of
\* it is in flight, and the trampoline never reads a freed record
C17_NoCallAfterFinalization ==
  /\ ~uaf
  /\ \A i \in 1..Len(stack) :
       stack[i].reg # 0 =>
         /\ regs[stack[i].reg].st = "registered"
         /\ dropCalls[stack[i].reg] = <<>>

\* script code calls a registered function that only the script heap refers to
C17_Witness ==
  /\ stack # <<>>
  /\ Top.t = "native"
  /\ Top.reg \in rooted
  /\ regs[Top.reg].st = "registered"
  /\ \A h \in Handles : ~(handles[h].live /\ handles[h].val = FnValue(Top.reg))

\* the handles of the function of closure c other than the record's own
OtherHandles(c) ==
  {h \in AllHandles : handles[h].live /\ handles[h].val = FnValue(c) /\ h # regs[c].value_ptr}

Unreferenced(c) ==
  /\ OtherHandles(c) = {}
  /\ c \notin rooted
  /\ \A i \in 1..Len(stack) : stack[i].reg # c

\* C18: the collector finalizes a registration only when no handle, no script
\* reference and no call keeps its function alive; the record's own weak
\* handle does not keep it alive, so the function is collectible once these
\* are gone
C18_FinalizedWhenUnreachable ==
  inst = "live" =>
    \A c \in Closures :
      /\ regs[c].st = "finalized" => Unreferenced(c)
      /\ (regs[c].st = "registered" /\ Unreferenced(c)) =>
           /\ handles[regs[c].value_ptr].live
           /\ Collectible(c)

\* the collector finalized a function after the host had dropped its handle
C18_Witness ==
  /\ inst = "live"
  /\ \E c \in Closures :
       /\ dropCalls[c] = <<"callback_drop">>
       /\ regs[c].st = "finalized"
       /\ Unreferenced(c)

DropOrder ==
  <<"ClearWeak", "main_callback_drop_func", "Reset", "func_size", "delete",
    "AdjustAmountOfExternalAllocatedMemory">>

\* C19: callback_drop_inner clears the weakness, calls the drop dispatcher,
\* resets and deletes the handle, frees the record and debits the accounting,
\* in this order: the dispatcher is called while the record is allocated and
\* no field of the record is read after it is freed
C19_FinalizationOrder ==
  /\ ~uaf
  /\ \A c \in Closures :
       /\ regs[c].st = "finalized" => regs[c].steps = DropOrder
       /\ regs[c].st # "finalized" => regs[c].steps = <<>>

\* the collector finalized a registration while the instance is live
C19_Witness ==
  /\ inst = "live"
  /\ \E c \in Closures :
       /\ regs[c].steps = DropOrder
       /\ dropCalls[c] = <<"callback_drop">>
       /\ ~handles[regs[c].value_ptr].live

\* C20: for every closure size the adjustment at finalization is the exact
\* negative, as a 64-bit signed number, of the adjustment at registration,
\* which is sizeof(RustCallback) + func_size without wrap-around: once a
\* registration is finalized its adjustments add up to zero
C20_DebitEqualsCredit ==
  /\ \A c \in Closures :
       /\ regs[c].st # "none" =>
            /\ regs[c].credit[4] = 0 /\ regs[c].credit[3] \in {0, 1}
            /\ regs[c].credit = AddW(FromUint32(regs[c].func_size), <<sizeof_RustCallback, 0, 0, 0>>)
       /\ regs[c].st = "registered" => regs[c].debit = ZeroW
       /\ regs[c].st = "finalized" =>
            /\ regs[c].debit[4] >= Limb \div 2
            /\ AddW(regs[c].credit, regs[c].debit) = ZeroW
  /\ (\A c \in Closures : regs[c].st # "registered") => ExternalMemory(regs, 1) = ZeroW

\* a closure of the largest size was registered and finalized
C20_Witness ==
  \E c \in Closures :
    /\ regs[c].st = "finalized"
    /\ regs[c].func_size = <<Limb - 1, Limb - 1>>
    /\ regs[c].credit = <<sizeof_RustCallback - 1, 0, 1, 0>>
    /\ regs[c].debit = <<Limb - sizeof_RustCallback + 1, Limb - 1, Limb - 2, Limb - 1>>

\* C22: when init_v8 has returned on a thread, InitializeICU,
\* InitializePlatform and V8::Initialize have completed, so that no thread
\* creates an isolate before V8::Initialize has finished
C22_InitializedOnReturn ==
  /\ \A t \in Threads : plat.pc[t] = "returned" => plat.log = InitSequence
  /\ ~plat.unready

OutsideUntouched(i) ==
  /\ \A c \in Closures :
       regs[c].interface # i => regs'[c] = regs[c] /\ dropCalls'[c] = dropCalls[c]
  /\ \A h \in AllHandles :
       (handles[h].cls # RUST_CALLBACK_CLASS_ID \/ handles[h].iso # i) => handles'[h] = handles[h]
  /\ uaf' = uaf

\* C23: mv8_interface_drop finalizes the registrations made through the
\* Interface it is given and no other, and touches no handle without the
\* class id; the registrations of the other Interface stay registered
C23_SweepStaysInside ==
  [][/\ (inst = "live" /\ inst' = "dropped") => OutsideUntouched(1)
     /\ (second.inst = "live" /\ second'.inst = "dropped") => OutsideUntouched(2)]_vars

\* the second Interface was dropped with a registration of its own, and a
\* function registered on the first Interface is called afterwards
C23_Witness ==
  /\ second.inst = "dropped"
  /\ inst = "live"
  /\ \E c \in Closures :
       regs[c].interface = 2 /\ regs[c].st = "finalized" /\ dropCalls[c] = <<"mv8_interface_drop">>
  /\ stack # <<>>
  /\ Top.t = "native"
  /\ regs[Top.reg].interface = 1
  /\ regs[Top.reg].st = "registered"
  /\ dropCalls[Top.reg] = <<>>
  /\ \E h \in Handles : handles[h].live /\ handles[h].cls = 0 /\ handles[h].iso = 2

====
